---- MODULE Spec2Model ----
(***************************************************************************)
(* A model of the answer cache (aoc/helpers/answer_cache.py) and of the    *)
(* run / submit orchestration of Puzzle (aoc/helpers/puzzle.py).           *)
(*                                                                         *)
(* Python values are tagged pairs <<type, value>>; a dict is the sequence  *)
(* of its <<key, value>> items in insertion order.  The JSON text of the   *)
(* backing file is a separate tree whose member names are plain strings,   *)
(* so that json.dump / json.loads are conversions and not the identity.    *)
(*                                                                         *)
(* Five specifications share the state: SpecCache (a process calling the   *)
(* cache directly), SpecShared (the same while another process writes the  *)
(* backing file), SpecDump (the same with values json.dump cannot write),  *)
(* SpecRun (processes calling Puzzle.run while solution and input are      *)
(* edited) and SpecSubmit (processes calling Puzzle.submit).               *)
(***************************************************************************)
EXTENDS Integers, Sequences, FiniteSets, TLC

\* ------------------------------------------------------------------------
\* Python values
\* ------------------------------------------------------------------------
PyNone == <<"None", 0>>

PyInt(n) == <<"int", n>>

PyStr(s) == <<"str", s>>

PyDict(items) == <<"dict", items>>

\* a value json.dump cannot write (bytes, a set, ...), as found inside a dict
PyBytes(b) == <<"bytes", b>>

\* the type tag and the payload of a value
type(x) == x[1]

val(x) == x[2]

EmptyDict == PyDict(<< >>)

\* str(x) for the key types the cache sees: str, int and None.
str(x) ==
    CASE type(x) = "str" -> x
      [] type(x) = "int" -> PyStr(ToString(val(x)))
      [] OTHER -> PyStr("None")

\* Faulty variant of truthy: a dict whose values are all None counts as
\* empty.
truthy_of_values(x) ==
    CASE type(x) = "None" -> FALSE
      [] type(x) = "int" -> val(x) # 0
      [] type(x) = "str" -> val(x) # ""
      [] OTHER -> \E i \in 1..Len(val(x)) : val(x)[i][2] # <<"None", 0>>

\* bool(x): Python truthiness, as used by `if cached_result:`, `not cached_answers`.
truthy(x) ==
    CASE type(x) = "None" -> FALSE
      [] type(x) = "int" -> val(x) # 0
      [] type(x) = "str" -> val(x) # ""
      [] OTHER -> Len(val(x)) > 0

\* index of key k in the items of a dict, 0 when absent
dict_index(items, k) ==
    IF \E i \in 1..Len(items) : items[i][1] = k
    THEN CHOOSE i \in 1..Len(items) : items[i][1] = k
    ELSE 0

\* dict.get(k, default)
dict_get(items, k, default) ==
    IF dict_index(items, k) = 0 THEN default ELSE items[dict_index(items, k)][2]

\* d[k] = value: an existing key keeps its position, a new one is appended
dict_setitem(items, k, value) ==
    IF dict_index(items, k) = 0
    THEN Append(items, <<k, value>>)
    ELSE [items EXCEPT ![dict_index(items, k)] = <<k, value>>]

\* a == b on Python values: dicts compare without regard to insertion order
RECURSIVE py_eq(_, _)
py_eq(a, b) ==
    IF type(a) # "dict" \/ type(b) # "dict"
    THEN a = b
    ELSE /\ Len(val(a)) = Len(val(b))
         /\ \A i \in 1..Len(val(a)) :
               /\ dict_index(val(b), val(a)[i][1]) # 0
               /\ py_eq(val(a)[i][2], dict_get(val(b), val(a)[i][1], PyNone))

\* ------------------------------------------------------------------------
\* JSON text and the conversions json.dump / json.loads
\* ------------------------------------------------------------------------
JNull == <<"null", 0>>

JNumber(n) == <<"number", n>>

JString(s) == <<"string", s>>

JObject(members) == <<"object", members>>

\* The member name json.dump writes for a dict key: str keys as they are,
\* int keys as their decimal text, None as null.
json_key(k) ==
    CASE type(k) = "str" -> val(k)
      [] type(k) = "int" -> ToString(val(k))
      [] OTHER -> "null"

RECURSIVE json_dump(_)
json_dump(x) ==
    CASE type(x) = "None" -> JNull
      [] type(x) = "int" -> JNumber(val(x))
      [] type(x) = "str" -> JString(val(x))
      [] OTHER -> JObject([i \in 1..Len(val(x)) |->
                              <<json_key(val(x)[i][1]), json_dump(val(x)[i][2])>>])

\* whether json.dump can write x
RECURSIVE serializable(_)
serializable(x) ==
    CASE type(x) \in {"None", "int", "str"} -> TRUE
      [] type(x) = "dict" -> \A i \in 1..Len(val(x)) : serializable(val(x)[i][2])
      [] OTHER -> FALSE

\* a text that ends where json.dump raised: the place of the value it
\* could not write, and an object cut short after one of its members
JCut == <<"cut", 0>>

JPartial(members) == <<"partial", members>>

\* a file with no bytes in it
JEmpty == <<"empty", 0>>

\* The text json.dump has written when it raises TypeError on x, which is
\* not serializable: it writes chunk by chunk, so everything before the
\* first value it cannot write is in the file.
RECURSIVE json_dump_partial(_)
json_dump_partial(x) ==
    IF type(x) # "dict" THEN JCut
    ELSE LET n == CHOOSE i \in 1..Len(val(x)) :
                     /\ ~serializable(val(x)[i][2])
                     /\ \A j \in 1..(i - 1) : serializable(val(x)[j][2])
         IN  JPartial([i \in 1..n |->
                         <<json_key(val(x)[i][1]),
                           IF i < n THEN json_dump(val(x)[i][2])
                           ELSE json_dump_partial(val(x)[i][2])>>])

\* whether json.loads accepts the text
complete(text) == type(text) \notin {"cut", "partial", "empty"}

\* json.loads builds each object by assigning its members in order, so a
\* repeated name keeps the last value.
RECURSIVE json_loads(_)
RECURSIVE json_members(_, _)
json_members(members, n) ==
    IF n = 0 THEN << >>
    ELSE dict_setitem(json_members(members, n - 1),
                      PyStr(members[n][1]), json_loads(members[n][2]))

json_loads(x) ==
    CASE type(x) = "null" -> PyNone
      [] type(x) = "number" -> PyInt(val(x))
      [] type(x) = "string" -> PyStr(val(x))
      [] OTHER -> PyDict(json_members(val(x), Len(val(x))))

\* ------------------------------------------------------------------------
\* Errors and warnings (answer_cache.py raises ValueError with these texts)
\* ------------------------------------------------------------------------
NoExc == ""

AlreadyOpenError == "ValueError: cache is already opened."

AlreadyClosedError == "ValueError: cache is already closed."

ClosedIOError == "ValueError: I/O operation on closed cache."

ClosedCommitError == "ValueError: can't commit a closed cache."

JSONDecodeError == "JSONDecodeError"

TypeError == "TypeError: Object is not JSON serializable"

ClosedStoreErrors == {AlreadyClosedError, ClosedIOError, ClosedCommitError}

DiscardedWarning == "Closing a cache with uncommitted changes. Changes will be lost."

StaleWarning == "cache file changed on disk after opening; changes will be overwritten!"

\* a raised exception travelling where a value is expected
Raised(msg) == <<"raise", msg>>

IsRaised(x) == type(x) = "raise"

\* ------------------------------------------------------------------------
\* Files: the bytes of <solution_directory>/answer_cache.json
\* ------------------------------------------------------------------------
NoFile == [exists |-> FALSE, text |-> JNull, nl |-> FALSE]

\* a file holding a JSON text, with or without a trailing newline
Bytes(text, nl) == [exists |-> TRUE, text |-> text, nl |-> nl]

\* hashlib.sha1(file_contents).hexdigest(): equal digests for equal bytes
\* only (collisions are not modelled)
sha1_bytes(b) == <<"sha1", b>>

\* ------------------------------------------------------------------------
\* AnswerCache instances.  The heap is the sequence of instances created so
\* far; an instance is named by its index.  Every operation returns the
\* heap and file system it leaves, what it returned or raised, the warnings
\* it emitted and whether it read or wrote the backing file.
\* ------------------------------------------------------------------------
\* a reference to instance o, as a Python value
Ref(o) == <<"AnswerCache", o>>

Outcome(h, f, ret, exc, warned, read, wrote) ==
    [heap |-> h, fs |-> f, ret |-> ret, exc |-> exc, warned |-> warned,
     read |-> read, wrote |-> wrote]

\* AnswerCache.__init__
AnswerCache_init(h, f, dir) ==
    Outcome(Append(h, [cache_path |-> dir,
                       _data |-> PyNone,
                       _uncommitted_changes |-> FALSE,
                       _file_hash |-> PyNone]),
            IF f[dir].exists THEN f
            ELSE [f EXCEPT ![dir] = Bytes(JObject(<< >>), TRUE)],
            Ref(Len(h) + 1), NoExc, {}, FALSE, ~f[dir].exists)

\* AnswerCache.open
open(h, f, o) ==
    IF h[o]._data # PyNone
    THEN Outcome(h, f, PyNone, AlreadyOpenError, {}, FALSE, FALSE)
    ELSE IF ~complete(f[h[o].cache_path].text)
    THEN Outcome(h, f, PyNone, JSONDecodeError, {}, TRUE, FALSE)
    ELSE Outcome([h EXCEPT ![o]._data = json_loads(f[h[o].cache_path].text),
                           ![o]._file_hash = sha1_bytes(f[h[o].cache_path])],
                 f, Ref(o), NoExc, {}, TRUE, FALSE)

\* Faulty variant of commit: writes whether or not there are uncommitted
\* changes (the early return of lines 111-113 is lost).
commit_ignoring_dirty(h, f, o) ==
    IF h[o]._data = PyNone
    THEN Outcome(h, f, PyNone, ClosedCommitError, {}, FALSE, FALSE)
    ELSE Outcome([h EXCEPT ![o]._uncommitted_changes = FALSE],
                 [f EXCEPT ![h[o].cache_path] = Bytes(json_dump(h[o]._data), FALSE)],
                 PyNone, NoExc,
                 IF sha1_bytes(f[h[o].cache_path]) # h[o]._file_hash
                 THEN {StaleWarning} ELSE {},
                 TRUE, TRUE)

\* Faulty variant of commit: the comparison of lines 115-116 is lost, the
\* file is overwritten without a warning.
commit_unwarned(h, f, o) ==
    IF h[o]._data = PyNone
    THEN Outcome(h, f, PyNone, ClosedCommitError, {}, FALSE, FALSE)
    ELSE IF ~h[o]._uncommitted_changes
    THEN Outcome(h, f, PyNone, NoExc, {}, FALSE, FALSE)
    ELSE Outcome([h EXCEPT ![o]._uncommitted_changes = FALSE],
                 [f EXCEPT ![h[o].cache_path] = Bytes(json_dump(h[o]._data), FALSE)],
                 PyNone, NoExc, {}, TRUE, TRUE)

\* AnswerCache.commit.  Line 118 opens the file for writing, which empties
\* it, and json.dump then writes the document chunk by chunk: when it
\* raises, the file keeps what was written and line 119 is not reached.
commit(h, f, o) ==
    IF h[o]._data = PyNone
    THEN Outcome(h, f, PyNone, ClosedCommitError, {}, FALSE, FALSE)
    ELSE IF ~h[o]._uncommitted_changes
    THEN Outcome(h, f, PyNone, NoExc, {}, FALSE, FALSE)
    ELSE IF ~serializable(h[o]._data)
    THEN Outcome(h,
                 [f EXCEPT ![h[o].cache_path] =
                     Bytes(json_dump_partial(h[o]._data), FALSE)],
                 PyNone, TypeError,
                 IF sha1_bytes(f[h[o].cache_path]) # h[o]._file_hash
                 THEN {StaleWarning} ELSE {},
                 TRUE, TRUE)
    ELSE Outcome([h EXCEPT ![o]._uncommitted_changes = FALSE],
                 [f EXCEPT ![h[o].cache_path] = Bytes(json_dump(h[o]._data), FALSE)],
                 PyNone, NoExc,
                 IF sha1_bytes(f[h[o].cache_path]) # h[o]._file_hash
                 THEN {StaleWarning} ELSE {},
                 TRUE, TRUE)

\* Faulty variant of close: the closed-store guard of lines 67-68 is lost.
close_unguarded(h, f, o, do_commit) ==
    LET c == IF do_commit /\ h[o]._data # PyNone THEN commit(h, f, o)
             ELSE Outcome(h, f, PyNone, NoExc, {}, FALSE, FALSE)
    IN  Outcome([c.heap EXCEPT ![o]._data = PyNone], c.fs, PyNone, NoExc,
                c.warned \cup (IF c.heap[o]._uncommitted_changes
                               THEN {DiscardedWarning} ELSE {}),
                c.read, c.wrote)

\* Faulty variant of close: the warning of lines 73-74 is lost.
close_unwarned(h, f, o, do_commit) ==
    IF h[o]._data = PyNone
    THEN Outcome(h, f, PyNone, AlreadyClosedError, {}, FALSE, FALSE)
    ELSE LET c == IF do_commit THEN commit(h, f, o)
                  ELSE Outcome(h, f, PyNone, NoExc, {}, FALSE, FALSE)
         IN  Outcome([c.heap EXCEPT ![o]._data = PyNone], c.fs, PyNone, NoExc,
                     c.warned, c.read, c.wrote)

\* AnswerCache.close
close(h, f, o, do_commit) ==
    IF h[o]._data = PyNone
    THEN Outcome(h, f, PyNone, AlreadyClosedError, {}, FALSE, FALSE)
    ELSE LET c == IF do_commit THEN commit(h, f, o)
                  ELSE Outcome(h, f, PyNone, NoExc, {}, FALSE, FALSE)
         IN  IF c.exc # NoExc THEN c
             ELSE Outcome([c.heap EXCEPT ![o]._data = PyNone], c.fs, PyNone,
                          NoExc,
                          c.warned \cup (IF c.heap[o]._uncommitted_changes
                                         THEN {DiscardedWarning} ELSE {}),
                          c.read, c.wrote)

\* the descent of AnswerCache.get below self._data
RECURSIVE get_path(_, _, _)
get_path(value, keys, default) ==
    IF Len(keys) = 0 THEN Raised("IndexError")
    ELSE IF type(value) # "dict" THEN Raised("AttributeError")
    ELSE IF Len(keys) = 1 THEN dict_get(val(value), str(keys[1]), default)
    ELSE get_path(dict_get(val(value), str(keys[1]), EmptyDict), Tail(keys), default)

\* AnswerCache.get
get(h, f, o, keys, default) ==
    IF h[o]._data = PyNone
    THEN Outcome(h, f, PyNone, ClosedIOError, {}, FALSE, FALSE)
    ELSE LET r == get_path(h[o]._data, keys, default)
         IN  IF IsRaised(r)
             THEN Outcome(h, f, PyNone, val(r), {}, FALSE, FALSE)
             ELSE Outcome(h, f, r, NoExc, {}, FALSE, FALSE)

\* the descent of AnswerCache.set: the dict with value stored at keys, or the
\* exception raised when a level on the way is not a dict
RECURSIVE set_path(_, _, _)
set_path(value, keys, new) ==
    IF Len(keys) = 0 THEN Raised("IndexError")
    ELSE IF type(value) # "dict"
    THEN Raised(IF Len(keys) = 1 THEN "TypeError" ELSE "AttributeError")
    ELSE IF Len(keys) = 1
    THEN PyDict(dict_setitem(val(value), str(keys[1]), new))
    ELSE LET below == set_path(dict_get(val(value), str(keys[1]), EmptyDict),
                             Tail(keys), new)
         IN  IF IsRaised(below) THEN below
             ELSE PyDict(dict_setitem(val(value), str(keys[1]), below))

\* AnswerCache.set
set(h, f, o, keys, value) ==
    IF h[o]._data = PyNone
    THEN Outcome(h, f, PyNone, ClosedIOError, {}, FALSE, FALSE)
    ELSE LET r == set_path(h[o]._data, keys, value)
         IN  IF IsRaised(r)
             THEN Outcome(h, f, PyNone, val(r), {}, FALSE, FALSE)
             ELSE Outcome([h EXCEPT ![o]._data = r,
                                    ![o]._uncommitted_changes = TRUE],
                          f, PyNone, NoExc, {}, FALSE, FALSE)

\* Faulty variant of AnswerCacheSingleton.__call__: the registry is not
\* consulted, every request constructs.
AnswerCache_unregistered(reg, h, f, dir) ==
    LET c == AnswerCache_init(h, f, dir)
    IN  [c EXCEPT !.ret = val(c.ret)] @@ [reg |-> [reg EXCEPT ![dir] = Len(h) + 1]]

\* AnswerCacheSingleton.__call__: the instance registered for dir, created
\* on the first request.  reg is the registry _instances (0: no entry).
AnswerCache(reg, h, f, dir) ==
    IF reg[dir] = 0
    THEN LET c == AnswerCache_init(h, f, dir)
         IN  [c EXCEPT !.ret = val(c.ret)] @@ [reg |-> [reg EXCEPT ![dir] = Len(h) + 1]]
    ELSE Outcome(h, f, reg[dir], NoExc, {}, FALSE, FALSE) @@ [reg |-> reg]

\* Faulty variant of __exit__: commits and closes on every exit path.
__exit__committing(h, f, o, raised) == close(h, f, o, TRUE)

\* Faulty variant of __exit__: the store is left as the block left it.
__exit__leaving_open(h, f, o, raised) ==
    Outcome(h, f, PyNone, NoExc, {}, FALSE, FALSE)

\* AnswerCache.__exit__(*exc_information): raised tells whether the block
\* is left by an exception.
__exit__(h, f, o, raised) ==
    IF ~raised THEN close(h, f, o, TRUE)
    ELSE Outcome(h, f, PyNone, NoExc, {}, FALSE, FALSE)

\* with AnswerCache(dir) as cache: -- the request and __enter__
with_enter(reg, h, f, dir) ==
    LET q == AnswerCache(reg, h, f, dir)
        e == open(q.heap, q.fs, q.ret)
    IN  [reg |-> q.reg, obj |-> q.ret, heap |-> e.heap, fs |-> e.fs,
         exc |-> e.exc]

\* The end of the block entered as e whose body did b.  When open raised,
\* neither the body nor __exit__ ran; when the body raised, __exit__ runs
\* and the exception goes on.
with_exit(e, b) ==
    LET x == __exit__(b.heap, b.fs, e.obj, b.exc # NoExc)
    IN  IF e.exc # NoExc
        THEN [reg |-> e.reg, heap |-> e.heap, fs |-> e.fs, ret |-> PyNone,
              exc |-> e.exc, warned |-> {}]
        ELSE [reg |-> e.reg, heap |-> x.heap, fs |-> x.fs, ret |-> b.ret,
              exc |-> IF b.exc # NoExc THEN b.exc ELSE x.exc,
              warned |-> b.warned \cup x.warned]

\* ------------------------------------------------------------------------
\* Puzzle (aoc/helpers/puzzle.py): the pure parts of run and submit
\* ------------------------------------------------------------------------
\* the solution directory of the day
Day == "day01"

\* the solution.py that get_solution_dir writes into a new directory: both
\* parts return None
SOLUTION_TEMPLATE == "template"

\* the contents solution.py takes
Solutions == {SOLUTION_TEMPLATE, "v1", "v2", "v3"}

\* the texts the puzzle input takes
Inputs == {"i1", "i2"}

SolutionError == "SolutionError"

\* getattr(solution, "prepare_puzzle", None)
prepare_function(solution) == solution \in {"v2", "v3"}

\* prepare_function(self): what it returns or raises on an input
prepare_puzzle(solution, input) ==
    IF solution = "v3" /\ input = "i1" THEN Raised(SolutionError) ELSE PyNone

\* solution.part_one(self)
part_one(solution, input) ==
    CASE solution = "v1" -> IF input = "i1" THEN PyInt(5) ELSE PyInt(0)
      [] solution = "v2" -> PyInt(5)
      [] solution = "v3" -> PyInt(6)
      [] OTHER -> PyNone

\* solution.part_two(self)
part_two(solution, input) ==
    CASE solution = "v2" -> IF input = "i1" THEN PyInt(9) ELSE PyStr("")
      [] solution = "v3" -> Raised(SolutionError)
      [] OTHER -> PyNone

\* hashlib.sha1(data) as a digest: equal digests for equal data only
hashlib_sha1(data) == "sha1(" \o data \o ")"

\* Faulty variant of puzzle_hash: the solution bytes are left out.
puzzle_hash_of_input(input, solution_bytes) ==
    PyStr(hashlib_sha1(hashlib_sha1(input)))

\* Puzzle.puzzle_hash
puzzle_hash(input, solution_bytes) ==
    PyStr(hashlib_sha1(hashlib_sha1(input) \o hashlib_sha1(solution_bytes)))

\* Faulty variant of solve: part_two is called only when part_one gave an
\* answer.
solve_until_unanswered(solution, input) ==
    LET p == IF prepare_function(solution)
             THEN prepare_puzzle(solution, input) ELSE PyNone
        a == part_one(solution, input)
        b == part_two(solution, input)
        pre == IF prepare_function(solution) THEN <<"prepare_puzzle">> ELSE << >>
    IN  IF IsRaised(p)
        THEN [invoked |-> pre, answer_one |-> PyNone, answer_two |-> PyNone,
              exc |-> val(p)]
        ELSE IF IsRaised(a)
        THEN [invoked |-> pre \o <<"part_one">>, answer_one |-> PyNone,
              answer_two |-> PyNone, exc |-> val(a)]
        ELSE IF a = PyNone
        THEN [invoked |-> pre \o <<"part_one">>, answer_one |-> PyNone,
              answer_two |-> PyNone, exc |-> NoExc]
        ELSE IF IsRaised(b)
        THEN [invoked |-> pre \o <<"part_one", "part_two">>, answer_one |-> a,
              answer_two |-> PyNone, exc |-> val(b)]
        ELSE [invoked |-> pre \o <<"part_one", "part_two">>, answer_one |-> a,
              answer_two |-> b, exc |-> NoExc]

\* Faulty variant of solve: an exception of the module is swallowed and the
\* part counts as unanswered.
solve_swallowing(solution, input) ==
    LET p == IF prepare_function(solution)
             THEN prepare_puzzle(solution, input) ELSE PyNone
        a == part_one(solution, input)
        b == part_two(solution, input)
        pre == IF prepare_function(solution) THEN <<"prepare_puzzle">> ELSE << >>
    IN  [invoked |-> pre \o <<"part_one", "part_two">>,
         answer_one |-> IF IsRaised(a) THEN PyNone ELSE a,
         answer_two |-> IF IsRaised(b) THEN PyNone ELSE b,
         exc |-> NoExc]

\* lines 231-242 of run: the functions of the imported module, called in
\* order on the puzzle until one raises
solve(solution, input) ==
    LET p == IF prepare_function(solution)
             THEN prepare_puzzle(solution, input) ELSE PyNone
        a == part_one(solution, input)
        b == part_two(solution, input)
        pre == IF prepare_function(solution) THEN <<"prepare_puzzle">> ELSE << >>
    IN  IF IsRaised(p)
        THEN [invoked |-> pre, answer_one |-> PyNone, answer_two |-> PyNone,
              exc |-> val(p)]
        ELSE IF IsRaised(a)
        THEN [invoked |-> pre \o <<"part_one">>, answer_one |-> PyNone,
              answer_two |-> PyNone, exc |-> val(a)]
        ELSE IF IsRaised(b)
        THEN [invoked |-> pre \o <<"part_one", "part_two">>, answer_one |-> a,
              answer_two |-> PyNone, exc |-> val(b)]
        ELSE [invoked |-> pre \o <<"part_one", "part_two">>, answer_one |-> a,
              answer_two |-> b, exc |-> NoExc]

\* the leading sentences submit tells the responses apart by
RightAnswer == "That's the right answer"

TooRecently == "You gave an answer too recently"

NotRightAnswer == "That's not the right answer"

WrongLevel == "You don't seem to be solving the right level."

\* A response to the POST: whether r.ok, the sentence its text starts with
\* and the numbers of the phrase "You have [<m>m ]<s>s left to wait" in it
\* (<< >>: no such phrase, <<s>>: seconds only, <<m, s>>: both).
Response(ok, head, wait) == [ok |-> ok, head |-> head, wait |-> wait]

Responses ==
    {Response(FALSE, "Internal Server Error", << >>)}
    \cup {Response(TRUE, h, << >>) :
             h \in {RightAnswer, NotRightAnswer, WrongLevel, "Something else"}}
    \cup {Response(TRUE, TooRecently, w) : w \in {<< >>, <<30>>, <<1, 30>>}}

\* body_text.startswith(prefix)
startswith(body, prefix) == body.head = prefix

\* WAIT_RE.search(body_text): whether the phrase is found
WAIT_RE_search(body) == body.wait # << >>

\* match.groupdict(default='0') with the groups read by int()
groupdict(body) ==
    [minutes |-> IF Len(body.wait) = 2 THEN body.wait[1] ELSE 0,
     seconds |-> body.wait[Len(body.wait)]]

\* Faulty variant of waiting_time: the extra second is left out.
waiting_time_exact(d) == 60 * d.minutes + d.seconds

\* line 370 of submit
waiting_time(d) == 60 * d.minutes + d.seconds + 1

\* ValueError("Can't submit `None` as an answer!")
NoneAnswerError == "ValueError: Can't submit None as an answer!"

CookieNotSet == "CookieNotSet"

SubmissionFailed == "SubmissionFailed"

AttributeError == "AttributeError"

\* Faulty variant of the lookup of submit: the cache is not consulted.
cached_result_skipped(reg, h, f, part, answer) ==
    [reg |-> reg, heap |-> h, fs |-> f, ret |-> PyNone, exc |-> NoExc,
     warned |-> {}]

\* lines 327-328 of submit
cached_result(reg, h, f, part, answer) ==
    LET e == with_enter(reg, h, f, Day)
    IN  with_exit(e, get(e.heap, e.fs, e.obj,
                         <<PyStr("cached_submissions"), part, answer>>, PyNone))

\* Faulty variant of the lookup of run: the record is not read.
cached_answers_unread(reg, h, f, hash) ==
    [reg |-> reg, heap |-> h, fs |-> f, ret |-> PyNone, exc |-> NoExc,
     warned |-> {}]

\* lines 227-228 of run
cached_answers(reg, h, f, hash) ==
    LET e == with_enter(reg, h, f, Day)
    IN  with_exit(e, get(e.heap, e.fs, e.obj,
                         <<PyStr("cached_answers"), hash>>, PyNone))

\* lines 244-246 of run
store_answers(reg, h, f, hash, answer_one, answer_two) ==
    LET e == with_enter(reg, h, f, Day)
        s1 == set(e.heap, e.fs, e.obj,
                  <<PyStr("cached_answers"), hash, PyStr("answer_one")>>,
                  answer_one)
        s2 == set(s1.heap, s1.fs, e.obj,
                  <<PyStr("cached_answers"), hash, PyStr("answer_two")>>,
                  answer_two)
    IN  with_exit(e, IF s1.exc # NoExc THEN s1 ELSE s2)

\* lines 402-403 of submit
store_result(reg, h, f, part, answer, result) ==
    LET e == with_enter(reg, h, f, Day)
    IN  with_exit(e, set(e.heap, e.fs, e.obj,
                         <<PyStr("cached_submissions"), part, str(answer)>>,
                         result))

\* lines 258-264 of run: the two statuses
answer_statuses(reg, h, f, answer_one, answer_two) ==
    LET e == with_enter(reg, h, f, Day)
        g1 == get(e.heap, e.fs, e.obj,
                  <<PyStr("cached_submissions"), PyStr("1"), str(answer_one)>>,
                  PyStr("not submitted"))
        g2 == get(e.heap, e.fs, e.obj,
                  <<PyStr("cached_submissions"), PyStr("2"), str(answer_two)>>,
                  PyStr("not submitted"))
    IN  with_exit(e, IF g1.exc # NoExc THEN g1
                     ELSE IF g2.exc # NoExc THEN g2
                     ELSE [g2 EXCEPT !.ret = <<g1.ret, g2.ret>>])

\* the locals of a run call; n = 0 stands for no call
NoRun ==
    [n |-> 0, submit |-> FALSE, ignore_cache |-> FALSE,
     input |-> "", solution_bytes |-> "", puzzle_hash |-> PyNone,
     cached |-> FALSE, stored |-> FALSE, invoked |-> << >>,
     answer_one |-> PyNone, answer_two |-> PyNone,
     printed |-> << >>, exc |-> NoExc]

\* the locals of a submit call; caller = "" stands for no call
NoSubmit ==
    [caller |-> "", part |-> PyNone, answer |-> PyNone, session |-> FALSE,
     retry |-> 0,
     result |-> PyNone, waiting_time |-> 0, responses |-> << >>,
     sleeps |-> << >>, logged |-> PyNone, exc |-> NoExc, done |-> FALSE]

\* ------------------------------------------------------------------------
\* State
\* ------------------------------------------------------------------------
VARIABLES
    fs,           \* the backing files, by solution directory
    _instances,   \* AnswerCacheSingleton._instances: directory -> instance
    heap,         \* the AnswerCache instances of the process
    issued,       \* history: the instances each directory's requests returned
    committed,    \* history: the document each directory's last commit wrote
    opened,       \* history: the file bytes each instance's last open read
    scope,        \* the `with AnswerCache(...)` block in progress
    ev,           \* the last call made on the cache and what it did
    ncalls,       \* number of calls made on the cache so far
    solution_file,  \* the bytes of solutions/day01/solution.py
    input_file,     \* the text of inputs/day01.txt
    sys_modules,    \* the solution module the process has imported ("": none)
    puzzle,         \* the Puzzle object of the process
    pc,             \* where the process is in run / submit
    run,            \* the locals of the run call in progress or last made
    prev,           \* history: the run call made before that one (its
                    \* fingerprint, what it hashed and its answers)
    sub,            \* the locals of the submit call in progress or last made,
                    \* until the run that made it returns or a run begins
    nruns,          \* number of run calls made so far
    nsubmits,       \* number of submit calls made directly so far
    nedits          \* number of edits of the solution and the input so far

cacheVars == <<issued, committed, opened, scope, ev, ncalls>>

puzzleVars == <<solution_file, input_file, sys_modules, puzzle, pc,
                run, prev, sub, nruns, nsubmits, nedits>>

vars == <<fs, _instances, heap, cacheVars, puzzleVars>>

\* ------------------------------------------------------------------------
\* Bounds and input sets of the cache specification
\* ------------------------------------------------------------------------
MaxCalls == 5

Dirs == {"day01", "day02"}

Keys == {PyStr("k"), PyInt(1)}

Values == {PyNone, PyInt(7), PyDict(<< <<PyInt(1), PyInt(7)>> >>)}

\* the key paths of the calls: every path of one or two keys
KeyPaths == {<<k>> : k \in Keys} \cup {<<k, l>> : k \in Keys, l \in Keys}

NoScope == [obj |-> 0, dir |-> "", entry |-> NoFile, committed |-> FALSE]

Event(op, o, keys, value, r) ==
    [op |-> op, obj |-> o, keys |-> keys, value |-> value,
     ret |-> r.ret, exc |-> r.exc, warned |-> r.warned,
     read |-> r.read, wrote |-> r.wrote]

\* no Puzzle has been constructed: the process uses the cache directly
NoPuzzle ==
    /\ solution_file = SOLUTION_TEMPLATE
    /\ input_file = "i1"
    /\ sys_modules = ""
    /\ puzzle = [input |-> ""]
    /\ pc = "no puzzle"
    /\ run = NoRun
    /\ prev = NoRun
    /\ sub = NoSubmit
    /\ nruns = 0
    /\ nsubmits = 0
    /\ nedits = 0

InitCache ==
    /\ fs = [d \in Dirs |-> NoFile]
    /\ _instances = [d \in Dirs |-> 0]
    /\ heap = << >>
    /\ issued = [d \in Dirs |-> {}]
    /\ committed = [d \in Dirs |-> PyNone]
    /\ opened = << >>
    /\ scope = NoScope
    /\ ncalls = 0
    /\ ev = Event("start", 0, << >>, PyNone,
                  Outcome(heap, fs, PyNone, NoExc, {}, FALSE, FALSE))
    /\ NoPuzzle

\* the effect of a call on instance o whose outcome is r
Apply(op, o, keys, value, r) ==
    /\ ncalls < MaxCalls
    /\ ncalls' = ncalls + 1
    /\ heap' = r.heap
    /\ fs' = r.fs
    /\ ev' = Event(op, o, keys, value, r)
    /\ committed' = IF r.wrote /\ op \in {"commit", "close_commit", "exit"}
                    THEN [committed EXCEPT ![heap[o].cache_path] = heap[o]._data]
                    ELSE committed
    /\ opened' = [i \in 1..Len(r.heap) |->
                     IF i = o /\ op \in {"open", "enter"} /\ r.exc = NoExc
                     THEN fs'[r.heap[o].cache_path]
                     ELSE IF i <= Len(opened) THEN opened[i] ELSE NoFile]
    /\ UNCHANGED puzzleVars

\* AnswerCache(dir), by any caller
Request(dir) ==
    LET r == AnswerCache(_instances, heap, fs, dir)
    IN  /\ Apply("request", r.ret, << >>, PyNone, [r EXCEPT !.ret = Ref(r.ret)])
        /\ _instances' = r.reg
        /\ issued' = [issued EXCEPT ![dir] = @ \cup {r.ret}]
        /\ UNCHANGED scope

\* o.open()
Open(o) ==
    /\ Apply("open", o, << >>, PyNone, open(heap, fs, o))
    /\ UNCHANGED <<_instances, issued, scope>>

\* o.close(commit=do_commit)
Close(o, do_commit) ==
    /\ Apply(IF do_commit THEN "close_commit" ELSE "close", o, << >>, PyNone,
             close(heap, fs, o, do_commit))
    /\ scope' = IF scope.obj = o /\ do_commit
                THEN [scope EXCEPT !.committed = TRUE] ELSE scope
    /\ UNCHANGED <<_instances, issued>>

\* o.commit()
Commit(o) ==
    /\ Apply("commit", o, << >>, PyNone, commit(heap, fs, o))
    /\ scope' = IF scope.obj = o THEN [scope EXCEPT !.committed = TRUE] ELSE scope
    /\ UNCHANGED <<_instances, issued>>

\* o.get(*keys)
Get(o, keys) ==
    /\ Apply("get", o, keys, PyNone, get(heap, fs, o, keys, PyNone))
    /\ UNCHANGED <<_instances, issued, scope>>

\* o.set(*keys, value=value)
Set(o, keys, value) ==
    /\ Apply("set", o, keys, value, set(heap, fs, o, keys, value))
    /\ UNCHANGED <<_instances, issued, scope>>

\* with AnswerCache(dir) as cache:  -- the request and __enter__.  When open
\* raises, the block is not entered and __exit__ will not run.
WithEnter(dir) ==
    /\ scope.obj = 0
    /\ LET q == AnswerCache(_instances, heap, fs, dir)
           r == open(q.heap, q.fs, q.ret)
       IN  /\ Apply("enter", q.ret, << >>, PyNone, r)
           /\ _instances' = q.reg
           /\ issued' = [issued EXCEPT ![dir] = @ \cup {q.ret}]
           /\ scope' = IF r.exc = NoExc
                       THEN [obj |-> q.ret, dir |-> dir, entry |-> q.fs[dir],
                             committed |-> FALSE]
                       ELSE NoScope

\* the block in progress ends, normally or by an exception raised in its body
WithExit(raised) ==
    /\ scope.obj # 0
    /\ Apply(IF raised THEN "exit_error" ELSE "exit", scope.obj, << >>, PyNone,
             __exit__(heap, fs, scope.obj, raised))
    /\ scope' = NoScope
    /\ UNCHANGED <<_instances, issued>>

Objs == 1..Len(heap)

NextCache ==
    \/ \E d \in Dirs : Request(d)
    \/ \E o \in Objs : Open(o)
    \/ \E o \in Objs, b \in BOOLEAN : Close(o, b)
    \/ \E o \in Objs : Commit(o)
    \/ \E o \in Objs, p \in KeyPaths : Get(o, p)
    \/ \E o \in Objs, p \in KeyPaths, v \in Values : Set(o, p, v)
    \/ \E d \in Dirs : WithEnter(d)
    \/ \E b \in BOOLEAN : WithExit(b)

SpecCache == InitCache /\ [][NextCache]_vars

\* ------------------------------------------------------------------------
\* The backing file shared with another process (a second run of the
\* program on the same solution directory, or an editor)
\* ------------------------------------------------------------------------
\* the bytes the other process leaves in the file: the file __init__
\* creates, and a document with one answer as json.dump writes it
OtherBytes == {Bytes(JObject(<< >>), TRUE),
               Bytes(JObject(<< <<"k", JNumber(7)>> >>), FALSE)}

\* the other process writes the backing file of dir
OtherProcessWrites(dir, bytes) ==
    /\ ncalls < MaxCalls
    /\ ncalls' = ncalls + 1
    /\ fs' = [fs EXCEPT ![dir] = bytes]
    /\ ev' = Event("other", 0, << >>, PyNone,
                   Outcome(heap, fs', PyNone, NoExc, {}, FALSE, TRUE))
    /\ UNCHANGED <<_instances, heap, issued, committed, opened, scope, puzzleVars>>

\* this process works on one directory with keys of one level; the other
\* process writes between any two of its calls
NextShared ==
    \/ Request(Day)
    \/ \E o \in Objs : Open(o)
    \/ \E o \in Objs, b \in BOOLEAN : Close(o, b)
    \/ \E o \in Objs : Commit(o)
    \/ \E o \in Objs, k \in Keys, v \in Values : Set(o, <<k>>, v)
    \/ WithEnter(Day)
    \/ \E b \in BOOLEAN : WithExit(b)
    \/ \E bytes \in OtherBytes : OtherProcessWrites(Day, bytes)

SpecShared == InitCache /\ [][NextShared]_vars

\* ------------------------------------------------------------------------
\* Documents json.dump cannot write
\* ------------------------------------------------------------------------
\* the values set: an answer, and a dict holding bytes
DumpValues == {PyInt(7), PyDict(<< <<PyStr("x"), PyBytes("x")>> >>)}

\* The file object of line 118 is never closed by commit.  When json.dump
\* returns it is released and its buffer reaches the file; when json.dump
\* raises, the traceback keeps it alive, so the file f[d] that the call
\* was writing holds either what was written (flushed) or nothing yet.
left_on_disk(f, r, flushed) ==
    IF r.exc # TypeError \/ flushed THEN r
    ELSE [r EXCEPT !.fs = [d \in Dirs |->
                             IF r.fs[d] # f[d] THEN Bytes(JEmpty, FALSE)
                             ELSE r.fs[d]]]

\* o.commit() with a document that may not be serializable
DumpCommit(o, flushed) ==
    /\ Apply("commit", o, << >>, PyNone,
             left_on_disk(fs, commit(heap, fs, o), flushed))
    /\ UNCHANGED <<_instances, issued, scope>>

\* o.close(commit=do_commit) with a document that may not be serializable
DumpClose(o, do_commit, flushed) ==
    /\ Apply(IF do_commit THEN "close_commit" ELSE "close", o, << >>, PyNone,
             left_on_disk(fs, close(heap, fs, o, do_commit), flushed))
    /\ UNCHANGED <<_instances, issued, scope>>

NextDump ==
    \/ Request(Day)
    \/ \E o \in Objs : Open(o)
    \/ \E o \in Objs, k \in Keys, v \in DumpValues : Set(o, <<k>>, v)
    \/ \E o \in Objs, flushed \in BOOLEAN : DumpCommit(o, flushed)
    \/ \E o \in Objs, b \in BOOLEAN, flushed \in BOOLEAN : DumpClose(o, b, flushed)

SpecDump == InitCache /\ [][NextDump]_vars

\* ------------------------------------------------------------------------
\* Puzzle: the processes that construct a Puzzle and call run and submit
\* ------------------------------------------------------------------------
MaxRuns == 3

MaxSubmits == 3

MaxEdits == 2

\* the answers submit is called with directly
SubmitAnswers == {PyNone, PyStr(""), PyInt(5), PyStr("5")}

Parts == {PyStr("1"), PyStr("2")}

\* the state after Puzzle("day01") in a fresh checkout: the solution
\* directory and the cache file have just been created
InitPuzzle ==
    LET q == AnswerCache([d \in Dirs |-> 0], << >>, [d \in Dirs |-> NoFile], Day)
    IN  /\ fs = q.fs
        /\ _instances = q.reg
        /\ heap = q.heap
        /\ issued = [d \in Dirs |-> {}]
        /\ committed = [d \in Dirs |-> PyNone]
        /\ opened = << >>
        /\ scope = NoScope
        /\ ncalls = 0
        /\ ev = Event("start", 0, << >>, PyNone,
                      Outcome(<< >>, [d \in Dirs |-> NoFile], PyNone, NoExc, {},
                              FALSE, FALSE))
        /\ solution_file = SOLUTION_TEMPLATE
        /\ input_file = "i1"
        /\ sys_modules = ""
        /\ puzzle = [input |-> "i1"]
        /\ pc = "idle"
        /\ run = NoRun
        /\ prev = NoRun
        /\ sub = NoSubmit
        /\ nruns = 0
        /\ nsubmits = 0
        /\ nedits = 0

\* the store as a with block leaves it
Stored(w) ==
    /\ _instances' = w.reg
    /\ heap' = w.heap
    /\ fs' = w.fs

\* where control goes when submit returns
return_to(caller) == IF caller = "run" THEN "report" ELSE "idle"

\* the process ends: its objects and imported modules are gone
Exit ==
    /\ pc = "idle"
    /\ pc' = "no puzzle"
    /\ heap' = << >>
    /\ _instances' = [d \in Dirs |-> 0]
    /\ sys_modules' = ""
    /\ puzzle' = [input |-> ""]
    /\ sub' = NoSubmit
    /\ UNCHANGED <<fs, cacheVars, solution_file, input_file, run, prev,
                   nruns, nsubmits, nedits>>

\* Puzzle.__init__ in a new process
NewPuzzle ==
    /\ pc = "no puzzle"
    /\ Stored(AnswerCache(_instances, heap, fs, Day))
    /\ puzzle' = [input |-> input_file]
    /\ pc' = "idle"
    /\ UNCHANGED <<cacheVars, solution_file, input_file, sys_modules, run, prev,
                   sub, nruns, nsubmits, nedits>>

\* the user edits solution.py
EditSolution(bytes) ==
    /\ pc \in {"no puzzle", "idle", "compute"}
    /\ bytes # solution_file
    /\ nedits < MaxEdits
    /\ nedits' = nedits + 1
    /\ solution_file' = bytes
    /\ UNCHANGED <<fs, _instances, heap, cacheVars, input_file,
                   sys_modules, puzzle, pc, run, prev, sub, nruns, nsubmits>>

\* the input file is replaced
EditInput(text) ==
    /\ pc = "no puzzle"
    /\ text # input_file
    /\ nedits < MaxEdits
    /\ nedits' = nedits + 1
    /\ input_file' = text
    /\ UNCHANGED <<fs, _instances, heap, cacheVars, solution_file,
                   sys_modules, puzzle, pc, run, prev, sub, nruns, nsubmits>>

\* Puzzle.run, lines 224-230 and 248-251: the fingerprint, the lookup and
\* the choice between the cached answers and the solution module
Run(submit, ignore_cache) ==
    /\ pc = "idle"
    /\ nruns < MaxRuns
    /\ \E hash \in {puzzle_hash(puzzle.input, solution_file)} :
       \E g \in {cached_answers(_instances, heap, fs, hash)} :
       LET hit == g.exc = NoExc /\ ~(ignore_cache \/ ~truthy(g.ret))
       IN  /\ Stored(g)
           /\ run' = [NoRun EXCEPT
                        !.n = nruns + 1,
                        !.submit = submit,
                        !.ignore_cache = ignore_cache,
                        !.input = puzzle.input,
                        !.solution_bytes = solution_file,
                        !.puzzle_hash = hash,
                        !.cached = hit,
                        !.stored = hit,
                        !.answer_one = IF hit
                            THEN dict_get(val(g.ret), PyStr("answer_one"), PyNone)
                            ELSE PyNone,
                        !.answer_two = IF hit
                            THEN dict_get(val(g.ret), PyStr("answer_two"), PyNone)
                            ELSE PyNone,
                        !.exc = g.exc]
           /\ pc' = IF g.exc # NoExc THEN "idle"
                    ELSE IF hit THEN "answers" ELSE "compute"
    /\ prev' = [run EXCEPT !.submit = FALSE, !.invoked = << >>,
                            !.printed = << >>, !.exc = NoExc]
    /\ nruns' = nruns + 1
    /\ sub' = NoSubmit
    /\ UNCHANGED <<cacheVars, solution_file, input_file, sys_modules,
                   puzzle, nsubmits, nedits>>

\* importlib.import_module: a module already imported is not read again
import_module(modules, file) == IF modules = "" THEN file ELSE modules

\* Puzzle.run, lines 231-246: import the solution, call its functions and
\* store the answers
Compute ==
    /\ pc = "compute"
    /\ \E solution \in {import_module(sys_modules, solution_file)} :
       \E r \in {solve(solution, puzzle.input)} :
       \E w \in {store_answers(_instances, heap, fs, run.puzzle_hash,
                               r.answer_one, r.answer_two)} :
       LET exc == IF r.exc # NoExc THEN r.exc ELSE w.exc
       IN  /\ sys_modules' = solution
           /\ IF r.exc # NoExc THEN UNCHANGED <<_instances, heap, fs>>
              ELSE Stored(w)
           /\ run' = [run EXCEPT !.invoked = r.invoked,
                                 !.answer_one = r.answer_one,
                                 !.answer_two = r.answer_two,
                                 !.stored = (exc = NoExc),
                                 !.exc = exc]
           /\ pc' = IF exc = NoExc THEN "answers" ELSE "idle"
    /\ UNCHANGED <<cacheVars, solution_file, input_file, puzzle, prev,
                   sub, nruns, nsubmits, nedits>>

\* Faulty variant of SubmitCall: the cookie is checked before the cache of
\* submissions is looked up.
SubmitCall_cookie_first(caller, part, answer, session) ==
    \E c \in {cached_result(_instances, heap, fs, part, answer)} :
    LET looked == answer # PyNone /\ session
        returns == looked /\ c.exc = NoExc /\ truthy(c.ret)
        exc == IF answer = PyNone THEN NoneAnswerError
               ELSE IF ~session THEN CookieNotSet
               ELSE IF c.exc # NoExc THEN c.exc
               ELSE NoExc
    IN  /\ IF looked THEN Stored(c) ELSE UNCHANGED <<_instances, heap, fs>>
        /\ sub' = [NoSubmit EXCEPT
                     !.caller = caller,
                     !.part = part,
                     !.answer = answer,
                     !.session = (exc \in {NoExc, CookieNotSet} /\ ~returns /\ session),
                     !.retry = IF exc = NoExc /\ ~returns THEN 1 ELSE 0,
                     !.logged = IF returns THEN c.ret ELSE PyNone,
                     !.exc = exc,
                     !.done = (exc # NoExc \/ returns)]
        /\ pc' = IF exc # NoExc THEN "idle"
                 ELSE IF returns THEN return_to(caller) ELSE "post"
        /\ run' = IF caller = "run" /\ exc # NoExc
                  THEN [run EXCEPT !.exc = exc] ELSE run

\* Puzzle.submit, lines 324-343: the None guard, the lookup in the cache of
\* submissions and the cookie check; session tells whether the environment
\* holds AOC_SESSION_COOKIE when the call is made
SubmitCall(caller, part, answer, session) ==
    \E c \in {cached_result(_instances, heap, fs, part, answer)} :
    LET returns == answer # PyNone /\ c.exc = NoExc /\ truthy(c.ret)
        exc == IF answer = PyNone THEN NoneAnswerError
               ELSE IF c.exc # NoExc THEN c.exc
               ELSE IF returns THEN NoExc
               ELSE IF ~session THEN CookieNotSet
               ELSE NoExc
    IN  /\ IF answer = PyNone THEN UNCHANGED <<_instances, heap, fs>>
           ELSE Stored(c)
        /\ sub' = [NoSubmit EXCEPT
                     !.caller = caller,
                     !.part = part,
                     !.answer = answer,
                     !.session = (exc \in {NoExc, CookieNotSet} /\ ~returns /\ session),
                     !.retry = IF exc = NoExc /\ ~returns THEN 1 ELSE 0,
                     !.logged = IF returns THEN c.ret ELSE PyNone,
                     !.exc = exc,
                     !.done = (exc # NoExc \/ returns)]
        /\ pc' = IF exc # NoExc THEN "idle"
                 ELSE IF returns THEN return_to(caller) ELSE "post"
        /\ run' = IF caller = "run" /\ exc # NoExc
                  THEN [run EXCEPT !.exc = exc] ELSE run

\* line 254 of run: the part and the answer to submit
submission(answer_one, answer_two) ==
    IF answer_two = PyNone THEN <<PyStr("1"), answer_one>>
    ELSE <<PyStr("2"), answer_two>>

\* Puzzle.run, lines 253-256
RunSubmit(session) ==
    /\ pc = "answers"
    /\ run.submit
    /\ \E s \in {submission(run.answer_one, run.answer_two)} :
          SubmitCall("run", s[1], s[2], session)
    /\ UNCHANGED <<cacheVars, solution_file, input_file, sys_modules,
                   puzzle, prev, nruns, nsubmits, nedits>>

\* puzzle.submit(part, answer), called directly
Submit(part, answer, session) ==
    /\ pc = "idle"
    /\ nsubmits < MaxSubmits
    /\ nsubmits' = nsubmits + 1
    /\ SubmitCall("user", part, answer, session)
    /\ UNCHANGED <<cacheVars, solution_file, input_file, sys_modules,
                   puzzle, prev, nruns, nedits>>

\* Faulty variant of classify: an unexpected text counts as a wrong answer.
classify_unexpected_as_wrong(r) ==
    IF startswith(r, RightAnswer) THEN PyStr("correct")
    ELSE IF startswith(r, TooRecently) THEN PyStr("pending")
    ELSE IF startswith(r, NotRightAnswer) THEN PyStr("wrong")
    ELSE IF startswith(r, WrongLevel) THEN PyStr("failed")
    ELSE PyStr("wrong")

\* lines 361-390 of submit: the result a response is classified as
classify(r) ==
    IF startswith(r, RightAnswer) THEN PyStr("correct")
    ELSE IF startswith(r, TooRecently) THEN PyStr("pending")
    ELSE IF startswith(r, NotRightAnswer) THEN PyStr("wrong")
    ELSE IF startswith(r, WrongLevel) THEN PyStr("failed")
    ELSE PyStr("failed")

\* Faulty variant of transport_error: the status of the response is not
\* looked at.
transport_error_ignored(r) == NoExc

\* lines 352-356 of submit: what `if not r.ok` raises
transport_error(r) == IF r.ok THEN NoExc ELSE SubmissionFailed

\* Faulty variant of unresolved: a pending result counts as resolved.
unresolved_if_failed(result) == result = PyStr("failed")

\* line 392 of submit: the result is not one to record
unresolved(result) == result \notin {PyStr("correct"), PyStr("wrong")}

\* Faulty variant of retries: a pending response is retried on every round.
retries_always(retry, r) == startswith(r, TooRecently)

\* lines 364-372 of submit: the response is pending and the round is the
\* first one, so submit sleeps and tries again
retries(retry, r) == startswith(r, TooRecently) /\ retry = 1

\* Puzzle.submit, one round of the loop of lines 345-390: the POST and the
\* classification of response r; when the loop ends, lines 392-407
Post(r) ==
    /\ pc = "post"
    /\ \E result \in {IF r.ok THEN classify(r) ELSE sub.result} :
       \E w \in {store_result(_instances, heap, fs, sub.part, sub.answer, result)} :
       LET again == r.ok /\ retries(sub.retry, r)
           terminal == ~unresolved(result)
           exc == IF transport_error(r) # NoExc THEN transport_error(r)
                  ELSE IF again /\ ~WAIT_RE_search(r) THEN AttributeError
                  ELSE IF ~again /\ terminal THEN w.exc
                  ELSE NoExc
       IN  /\ IF exc = NoExc /\ ~again /\ terminal THEN Stored(w)
              ELSE UNCHANGED <<_instances, heap, fs>>
           /\ sub' = [sub EXCEPT
                        !.responses = Append(@, r),
                        !.result = result,
                        !.waiting_time = IF exc = NoExc /\ again
                                         THEN waiting_time(groupdict(r)) ELSE @,
                        !.exc = exc,
                        !.done = (exc # NoExc \/ ~again)]
           /\ pc' = IF exc # NoExc THEN "idle"
                    ELSE IF again THEN "sleep" ELSE return_to(sub.caller)
           /\ run' = IF sub.caller = "run" /\ exc # NoExc
                     THEN [run EXCEPT !.exc = exc] ELSE run
    /\ UNCHANGED <<cacheVars, solution_file, input_file, sys_modules,
                   puzzle, prev, nruns, nsubmits, nedits>>

\* time.sleep(waiting_time), line 372, and the step to the second round
Sleep ==
    /\ pc = "sleep"
    /\ sub' = [sub EXCEPT !.sleeps = Append(@, sub.waiting_time), !.retry = 2]
    /\ pc' = "post"
    /\ UNCHANGED <<fs, _instances, heap, cacheVars, solution_file, input_file,
                   sys_modules, puzzle, run, prev, nruns, nsubmits, nedits>>

\* Puzzle.run, lines 258-278: the statuses of the two answers and the
\* printed block; run returns
Report ==
    /\ pc = "report" \/ (pc = "answers" /\ ~run.submit)
    /\ \E w \in {answer_statuses(_instances, heap, fs, run.answer_one,
                                 run.answer_two)} :
           /\ Stored(w)
           /\ run' = IF w.exc # NoExc THEN [run EXCEPT !.exc = w.exc]
                     ELSE [run EXCEPT !.printed =
                              <<run.answer_one, w.ret[1], run.answer_two, w.ret[2],
                                IF run.cached THEN PyStr("cached solution")
                                ELSE PyStr("timed")>>]
    /\ pc' = "idle"
    /\ sub' = NoSubmit
    /\ UNCHANGED <<cacheVars, solution_file, input_file, sys_modules,
                   puzzle, prev, nruns, nsubmits, nedits>>

\* the steps of the environment: processes end and begin, files are edited
NextEnvironment ==
    \/ Exit
    \/ NewPuzzle
    \/ \E bytes \in Solutions : EditSolution(bytes)
    \/ \E text \in Inputs : EditInput(text)

\* the steps of a submit call
NextSubmit ==
    \/ \E r \in Responses : Post(r)
    \/ Sleep

\* processes that call run, with and without submit
NextRun ==
    \/ NextEnvironment
    \/ \E submit \in BOOLEAN, ignore_cache \in BOOLEAN : Run(submit, ignore_cache)
    \/ Compute
    \/ \E session \in BOOLEAN : RunSubmit(session)
    \/ NextSubmit
    \/ Report

SpecRun == InitPuzzle /\ [][NextRun]_vars

\* processes that call submit directly
NextDirect ==
    \/ Exit
    \/ NewPuzzle
    \/ \E part \in Parts, answer \in SubmitAnswers, session \in BOOLEAN :
          Submit(part, answer, session)
    \/ NextSubmit

SpecSubmit == InitPuzzle /\ [][NextDirect]_vars

\* ------------------------------------------------------------------------
\* Claims about run and submit
\* ------------------------------------------------------------------------
\* what the backing file of the day holds at a key path (None: nothing)
recorded(f, keys) == get_path(json_loads(f[Day].text), keys, PyNone)

\* the classifications that end the submission of an answer for good
Terminal == {PyStr("correct"), PyStr("wrong")}

\* the last two run calls were made without ignore_cache and the earlier one
\* stored its answers (or found them stored)
ConsecutiveRuns ==
    /\ run.n >= 2
    /\ ~run.ignore_cache
    /\ ~prev.ignore_cache
    /\ prev.stored

SameFingerprintInputs ==
    run.input = prev.input /\ run.solution_bytes = prev.solution_bytes

\* the run in progress serves the answers of the previous run and calls
\* nothing of the solution module
ServedFromPrevious ==
    /\ run.cached
    /\ pc # "compute"
    /\ run.invoked = << >>
    /\ run.answer_one = prev.answer_one
    /\ run.answer_two = prev.answer_two
    /\ run.printed # << >> =>
          (run.printed[1] = prev.answer_one /\ run.printed[3] = prev.answer_two)

\* C1 as stated: of two consecutive runs without ignore_cache, the second
\* serves the answers of the first when input and solution bytes are the
\* same; when either differs the fingerprint differs and the second run
\* invokes the solution module again.
C1_ChangeAlwaysReruns ==
    ConsecutiveRuns =>
        IF SameFingerprintInputs THEN ServedFromPrevious
        ELSE /\ run.puzzle_hash # prev.puzzle_hash
             /\ ~run.cached
             /\ pc # "compute" => run.invoked # << >>

\* C1, amended: as above, but when input or solution bytes differ the
\* second run invokes the solution module again only if the file holds no
\* record for the new fingerprint; when it holds one (stored by an earlier
\* run) the run serves that record and invokes nothing.
C1_FingerprintCache ==
    ConsecutiveRuns =>
        IF SameFingerprintInputs THEN ServedFromPrevious
        ELSE /\ run.puzzle_hash # prev.puzzle_hash
             /\ pc = "compute" =>
                   recorded(fs, <<PyStr("cached_answers"), run.puzzle_hash>>) = PyNone
             /\ (~run.cached /\ pc # "compute") => run.invoked # << >>
             /\ run.cached =>
                   /\ run.invoked = << >>
                   /\ recorded(fs, <<PyStr("cached_answers"), run.puzzle_hash,
                                     PyStr("answer_one")>>) = run.answer_one
                   /\ recorded(fs, <<PyStr("cached_answers"), run.puzzle_hash,
                                     PyStr("answer_two")>>) = run.answer_two

C1_Witness ==
    /\ ConsecutiveRuns
    /\ SameFingerprintInputs
    /\ ~prev.cached
    /\ run.cached
    /\ run.answer_one = PyInt(5)
    /\ run.printed # << >>

\* the step begins a submit call (made directly or by run)
SubmitBegins ==
    \/ nsubmits' = nsubmits + 1
    \/ pc = "answers" /\ run.submit /\ sub' # sub

\* every terminal entry under cached_submissions of file f is still the
\* same in file g
TerminalKept(f, g) ==
    LET parts == recorded(f, <<PyStr("cached_submissions")>>)
    IN  parts # PyNone =>
        \A i \in 1..Len(val(parts)) :
            \A j \in 1..Len(val(val(parts)[i][2])) :
                LET part == val(parts)[i][1]
                    entry == val(val(parts)[i][2])[j]
                IN  entry[2] \in Terminal =>
                       recorded(g, <<PyStr("cached_submissions"), part, entry[1]>>)
                          = entry[2]

C3_PendingRetry ==
    (/\ sub.responses # << >>
     /\ sub.responses[1].ok
     /\ startswith(sub.responses[1], TooRecently)
     /\ sub.responses[1].wait # << >>) =>
        LET wait == sub.responses[1].wait
            m == IF Len(wait) = 2 THEN wait[1] ELSE 0
            s == wait[Len(wait)]
            slept == <<60 * m + s + 1>>
            entry == recorded(fs, <<PyStr("cached_submissions"), sub.part,
                                    sub.answer>>)
        IN  /\ Len(sub.responses) <= 2
            /\ pc = "sleep" => (sub.sleeps = << >> /\ Len(sub.responses) = 1)
            /\ pc # "sleep" => sub.sleeps = slept
            /\ wait = <<1, 30>> /\ pc # "sleep" => sub.sleeps = <<91>>
            /\ pc = "post" => Len(sub.responses) = 1
            /\ sub.done =>
                  /\ Len(sub.responses) = 2
                  /\ (sub.responses[2].ok /\ startswith(sub.responses[2], RightAnswer)) =>
                        /\ sub.exc = NoExc
                        /\ sub.result = PyStr("correct")
                        /\ entry = PyStr("correct")
                  /\ (sub.responses[2].ok /\ startswith(sub.responses[2], TooRecently)) =>
                        /\ sub.exc = NoExc
                        /\ sub.result = PyStr("pending")
                        /\ entry = PyNone

C3_Witness ==
    /\ sub.done
    /\ Len(sub.responses) = 2
    /\ sub.responses[1].wait = <<1, 30>>
    /\ sub.sleeps = <<91>>
    /\ sub.result = PyStr("correct")

\* a value with nothing to submit: None or the empty string
empty(answer) == answer = PyNone \/ answer = PyStr("")

\* the call of submit that the run in progress made
SubmittedByRun == sub.caller = "run" /\ run.submit /\ run.n = nruns

\* C13: a run with submit requested invokes submit with part 2 and
\* answer_two when answer_two is neither empty nor None, and with part 1 and
\* answer_one otherwise.
C13_SubmittedPart ==
    SubmittedByRun =>
        <<sub.part, sub.answer>> =
            IF ~empty(run.answer_two) THEN <<PyStr("2"), run.answer_two>>
            ELSE <<PyStr("1"), run.answer_one>>

\* C14: entry guard -- submit called with an empty or None value fails with
\* the invalid-input error before any cache lookup, credential check or
\* network call: the call has raised that error, no response was received
\* and the cookie was not looked at.
C14_EntryGuard ==
    (sub.caller = "user" /\ empty(sub.answer)) =>
        /\ sub.exc = NoneAnswerError
        /\ sub.responses = << >>
        /\ ~sub.session
        /\ pc = "idle"

\* every entry under cached_submissions of file f is "correct" or "wrong"
OnlyTerminal(f) ==
    LET parts == recorded(f, <<PyStr("cached_submissions")>>)
    IN  parts # PyNone =>
        \A i \in 1..Len(val(parts)) :
            \A j \in 1..Len(val(val(parts)[i][2])) :
                val(val(parts)[i][2])[j][2] \in Terminal

\* the step is the last one of a submit call that reached the site
SubmitEnds == pc = "post" /\ sub'.done

\* C15: every entry under cached_submissions is "correct" or "wrong" in every
\* reachable state; a submit call that ends writes the (part, str(value))
\* entry exactly when it ends classified correct or wrong and leaves the
\* file as it was when it ends pending after the retry, failed or with an
\* error; a submit of a pair without an entry, made with a credential,
\* goes on to a network call.
C15_OnlyTerminalCached ==
    /\ []OnlyTerminal(fs)
    /\ [][/\ SubmitEnds =>
               IF sub'.exc = NoExc /\ sub'.result \in Terminal
               THEN /\ recorded(fs, <<PyStr("cached_submissions"), sub.part,
                                      sub.answer>>) = PyNone
                    /\ recorded(fs', <<PyStr("cached_submissions"), sub.part,
                                       sub.answer>>) = sub'.result
               ELSE fs' = fs
          /\ (SubmitBegins /\ sub'.answer # PyNone /\ sub'.session
                 /\ recorded(fs, <<PyStr("cached_submissions"), sub'.part,
                                   sub'.answer>>) = PyNone) =>
               (pc' = "post" /\ sub'.retry = 1 /\ fs' = fs)
         ]_vars

\* after an answer was recorded, a submit of another pair has ended as
\* failed or pending and left no entry for its pair
C15_Witness ==
    /\ recorded(fs, <<PyStr("cached_submissions")>>) # PyNone
    /\ sub.caller = "user"
    /\ sub.done
    /\ sub.exc = NoExc
    /\ sub.result \in {PyStr("failed"), PyStr("pending")}
    /\ recorded(fs, <<PyStr("cached_submissions"), sub.part, sub.answer>>) = PyNone

\* C16: when a run with submit=True finds that the answer to submit is None
\* or was submitted before, no network call is made, no error is raised
\* and the run proceeds to the report.
C16_SkipsAndReports ==
    (SubmittedByRun /\ (sub.answer = PyNone \/ sub.logged # PyNone)) =>
        /\ sub.responses = << >>
        /\ sub.exc = NoExc
        /\ run.exc = NoExc
        /\ pc = "report"

\* the last response the submit call received
LastResponse == sub.responses[Len(sub.responses)]

\* C17: response classification is total and determined by the prefix --
\* right answer: correct, too recently: pending, not the right answer:
\* wrong, not the right level: failed, any other text: failed; a response
\* classified correct, wrong or failed ends the call at once, with no
\* further network call and no sleep after it.
C17_Classification ==
    (sub.responses # << >> /\ LastResponse.ok) =>
        LET expected ==
                CASE LastResponse.head = RightAnswer -> PyStr("correct")
                  [] LastResponse.head = TooRecently -> PyStr("pending")
                  [] LastResponse.head = NotRightAnswer -> PyStr("wrong")
                  [] LastResponse.head = WrongLevel -> PyStr("failed")
                  [] OTHER -> PyStr("failed")
        IN  /\ sub.result = expected
            /\ expected # PyStr("pending") =>
                  /\ sub.done
                  /\ sub.exc = NoExc
                  /\ pc \notin {"post", "sleep"}
                  /\ Len(sub.sleeps) = Len(sub.responses) - 1

\* a first response with an unexpected text has ended the call as failed
C17_Witness ==
    /\ Len(sub.responses) = 1
    /\ LastResponse.ok
    /\ LastResponse.head = "Something else"
    /\ sub.result = PyStr("failed")
    /\ sub.done
    /\ sub.sleeps = << >>
    /\ pc = "idle"

\* the step is a network call of the submit call in progress
Posts == pc = "post" /\ Len(sub'.responses) = Len(sub.responses) + 1

\* C18: a non-success response to the first or the second network call
\* makes submit raise the transport error at once -- the call is over, no
\* sleep follows, no file is written, and no network call is ever made
\* after a non-success response.
C18_TransportFailure ==
    /\ [](\A i \in 1..Len(sub.responses) :
             ~sub.responses[i].ok =>
                 (i = Len(sub.responses) /\ sub.exc = SubmissionFailed))
    /\ [][(Posts /\ ~sub'.responses[Len(sub'.responses)].ok) =>
             /\ sub'.exc = SubmissionFailed
             /\ sub'.done
             /\ pc' = "idle"
             /\ sub'.sleeps = sub.sleeps
             /\ fs' = fs
         ]_vars

\* the retry after a sleep got a non-success response and the call has
\* ended with the transport error, nothing recorded
C18_Witness ==
    /\ Len(sub.responses) = 2
    /\ ~LastResponse.ok
    /\ sub.exc = SubmissionFailed
    /\ Len(sub.sleeps) = 1
    /\ pc = "idle"
    /\ recorded(fs, <<PyStr("cached_submissions")>>) = PyNone

\* what the file records for the pair of the submit call that begins
RecordedBefore ==
    recorded(fs, <<PyStr("cached_submissions"), sub'.part, sub'.answer>>)

\* C19: credential check ordering -- a submit call raises the
\* missing-credential error only for a pair without a recorded correct or
\* wrong result, and before any network call; for a pair with such a
\* result it returns normally whether or not a credential is set; a call
\* for a pair without one either raises the error or goes on to the
\* network call with the credential.
C19_CredentialOrder ==
    /\ [](sub.exc = CookieNotSet =>
             (sub.responses = << >> /\ sub.done /\ pc = "idle"))
    /\ [][(SubmitBegins /\ sub'.answer # PyNone) =>
             /\ sub'.exc = CookieNotSet =>
                   (RecordedBefore \notin Terminal /\ fs' = fs)
             /\ RecordedBefore \in Terminal =>
                   (sub'.exc = NoExc /\ sub'.done /\ pc' = return_to(sub'.caller))
             /\ RecordedBefore = PyNone =>
                   \/ sub'.exc = CookieNotSet
                   \/ (sub'.exc = NoExc /\ sub'.session /\ pc' = "post")
         ]_vars

\* with the result of one pair recorded, a submit of another pair made
\* without a credential has raised the missing-credential error
C19_Witness ==
    /\ sub.exc = CookieNotSet
    /\ sub.responses = << >>
    /\ recorded(fs, <<PyStr("cached_submissions")>>) # PyNone
    /\ recorded(fs, <<PyStr("cached_submissions"), sub.part, sub.answer>>) = PyNone

\* the calls run makes into module m, in order
CallOrder(m) ==
    (IF prepare_function(m) THEN <<"prepare_puzzle">> ELSE << >>)
       \o <<"part_one", "part_two">>

\* the step is run leaving lines 231-246, by the end of the with block or
\* by an exception
Computes == pc = "compute" /\ pc' # "compute"

\* what the file records under the fingerprint of the run for an answer
RecordedAnswer(f, name) ==
    recorded(f, <<PyStr("cached_answers"), run.puzzle_hash, PyStr(name)>>)

\* C20: on a cache miss or bypass, run calls prepare_puzzle (only if the
\* imported module has it), then part_one, then part_two, each once, and
\* part_two whatever part_one returned; when none of them raises, both
\* answers are recorded in the file under the fingerprint before run goes
\* on, and a submission by run begins only after that.
C20_ComputeOrder ==
    /\ [](SubmittedByRun =>
             /\ run.stored
             /\ run.cached \/ run.invoked = CallOrder(sys_modules)
             /\ RecordedAnswer(fs, "answer_one") = run.answer_one
             /\ RecordedAnswer(fs, "answer_two") = run.answer_two)
    /\ [][Computes =>
             /\ Len(run'.invoked) <= Len(CallOrder(sys_modules'))
             /\ run'.invoked = SubSeq(CallOrder(sys_modules'), 1, Len(run'.invoked))
             /\ run'.exc = NoExc =>
                   /\ run'.invoked = CallOrder(sys_modules')
                   /\ run'.stored
                   /\ RecordedAnswer(fs', "answer_one") = run'.answer_one
                   /\ RecordedAnswer(fs', "answer_two") = run'.answer_two
                   /\ pc' = "answers"
                   /\ sub' = NoSubmit
             /\ run'.exc # NoExc => (fs' = fs /\ pc' = "idle")
         ]_vars

\* a run that bypassed the cache has called prepare_puzzle, part_one and
\* part_two of the module, recorded both answers and begun its submission
C20_Witness ==
    /\ SubmittedByRun
    /\ run.ignore_cache
    /\ run.invoked = <<"prepare_puzzle", "part_one", "part_two">>
    /\ run.answer_one = PyInt(5)
    /\ run.answer_two = PyInt(9)
    /\ RecordedAnswer(fs, "answer_two") = PyInt(9)
    /\ sub.part = PyStr("2")

\* the record of a run whose two parts returned None
UnsolvedRecord ==
    PyDict(<< <<PyStr("answer_one"), PyNone>>, <<PyStr("answer_two"), PyNone>> >>)

\* the run in progress or last made called the solution module, both parts
\* returned None and the answers were stored
RanUnsolved ==
    /\ run.n > 0
    /\ ~run.cached
    /\ run.stored
    /\ run.answer_one = PyNone
    /\ run.answer_two = PyNone

\* C21: a run whose part_one and part_two both return None stores the
\* record {answer_one: null, answer_two: null} under the fingerprint, and a
\* following run with the same fingerprint and without ignore_cache is a
\* cache hit on that record: it does not invoke the solution module and
\* its answers are None.
C21_UnsolvedCached ==
    /\ (RanUnsolved /\ run.n = nruns) =>
          recorded(fs, <<PyStr("cached_answers"), run.puzzle_hash>>) = UnsolvedRecord
    /\ (/\ run.n >= 2
        /\ ~run.ignore_cache
        /\ ~prev.cached /\ prev.stored
        /\ prev.answer_one = PyNone /\ prev.answer_two = PyNone
        /\ run.puzzle_hash = prev.puzzle_hash) =>
          /\ run.cached
          /\ pc # "compute"
          /\ run.invoked = << >>
          /\ run.answer_one = PyNone
          /\ run.answer_two = PyNone

\* after a run that computed and stored two None answers, the next run with
\* the same fingerprint has been served from the cache and has reported
C21_Witness ==
    /\ run.n >= 2
    /\ ~prev.cached /\ prev.stored
    /\ prev.answer_one = PyNone /\ prev.answer_two = PyNone
    /\ run.puzzle_hash = prev.puzzle_hash
    /\ run.cached
    /\ run.printed # << >>
    /\ run.printed[1] = PyNone

\* the record the file holds under the fingerprint of the run
RecordOfRun(f) == recorded(f, <<PyStr("cached_answers"), run.puzzle_hash>>)

\* the step is run storing the answers it computed (lines 244-246)
StoresAnswers == Computes /\ run'.stored

\* C22 as stated: the record of a fingerprint is written once -- run stores
\* answers only under a fingerprint that has no record yet, whatever its
\* flags.
C22_WrittenOnce ==
    [][StoresAnswers => RecordOfRun(fs) = PyNone]_vars

\* C22, amended: a run without ignore_cache stores answers only under a
\* fingerprint that has no record yet; a run with ignore_cache stores the
\* answers it computed also over an existing record; no other step changes
\* what is recorded under cached_answers.
C22_WrittenOnceUnlessBypassed ==
    [][/\ (StoresAnswers /\ ~run.ignore_cache) => RecordOfRun(fs) = PyNone
       /\ StoresAnswers =>
             /\ RecordedAnswer(fs', "answer_one") = run'.answer_one
             /\ RecordedAnswer(fs', "answer_two") = run'.answer_two
       /\ ~StoresAnswers =>
             \/ fs' = fs
             \/ recorded(fs', <<PyStr("cached_answers")>>)
                   = recorded(fs, <<PyStr("cached_answers")>>)
      ]_vars

\* a run with ignore_cache has stored answers over the record the previous
\* run stored under the same fingerprint, with another answer
C22_Witness ==
    /\ run.n >= 2
    /\ run.ignore_cache
    /\ ~run.cached /\ run.stored
    /\ prev.stored
    /\ run.puzzle_hash = prev.puzzle_hash
    /\ run.answer_one # prev.answer_one
    /\ RecordedAnswer(fs, "answer_one") = run.answer_one

\* module m raises in prepare_puzzle, part_one or part_two on the input
Raises(m, input) ==
    \/ prepare_function(m) /\ IsRaised(prepare_puzzle(m, input))
    \/ IsRaised(part_one(m, input))
    \/ IsRaised(part_two(m, input))

\* C23: if prepare_puzzle, part_one or part_two raises during run, the
\* error ends the run, the functions called are those up to the one that
\* raised, each once, no store and no file is changed by the run, nothing
\* is recorded under cached_answers by it, and no submission and no report
\* follow.
C23_SolutionError ==
    /\ [](run.exc = SolutionError =>
             /\ pc \in {"idle", "no puzzle"}
             /\ sub.caller = ""
             /\ run.printed = << >>
             /\ ~run.stored)
    /\ [][/\ nruns' = nruns + 1 => fs' = fs
          /\ (Computes /\ Raises(sys_modules', puzzle.input)) =>
                /\ run'.exc = SolutionError
                /\ pc' = "idle"
                /\ fs' = fs
                /\ heap' = heap
                /\ sub' = NoSubmit
                /\ Len(run'.invoked) <= Len(CallOrder(sys_modules'))
                /\ run'.invoked = SubSeq(CallOrder(sys_modules'), 1, Len(run'.invoked))
         ]_vars

\* part_two of the module has raised in a run with submit=True that missed
\* the cache: the run is over and the file has no record for the fingerprint
C23_Witness ==
    /\ run.exc = SolutionError
    /\ run.submit
    /\ run.invoked = <<"prepare_puzzle", "part_one", "part_two">>
    /\ RecordOfRun(fs) = PyNone
    /\ pc = "idle"

\* C27: fingerprint soundness -- every record the file holds under the
\* fingerprint of an input text and of solution bytes holds the answers
\* that these solution bytes give on that input.
C27_FingerprintSound ==
    \A s \in Solutions, i \in Inputs :
        LET record == recorded(fs, <<PyStr("cached_answers"), puzzle_hash(i, s)>>)
        IN  record # PyNone =>
               /\ ~Raises(s, i)
               /\ dict_get(val(record), PyStr("answer_one"), PyNone) = part_one(s, i)
               /\ dict_get(val(record), PyStr("answer_two"), PyNone) = part_two(s, i)

\* the errors run and submit raise themselves or pass on
OwnErrors == {SolutionError, NoneAnswerError, CookieNotSet, SubmissionFailed}

\* C28: store discipline of run and submit -- no with block of theirs finds
\* the store already open, and at every point between their with blocks,
\* in particular when they return or raise one of their errors, every
\* store instance is closed and has no uncommitted changes.
C28_StoreDiscipline ==
    /\ run.exc # AlreadyOpenError
    /\ sub.exc # AlreadyOpenError
    /\ \A o \in 1..Len(heap) :
          heap[o]._data = PyNone /\ ~heap[o]._uncommitted_changes

\* a run that stored its answers has ended by an error of its submission,
\* and the store is closed and clean
C28_Witness ==
    /\ run.stored
    /\ ~run.cached
    /\ run.exc \in OwnErrors
    /\ sub.caller = "run"
    /\ pc = "idle"
    /\ Len(heap) = 1
    /\ heap[1]._data = PyNone
    /\ ~heap[1]._uncommitted_changes

\* a submit call is in progress
Submitting == sub.caller # "" /\ ~sub.done

\* the steps a submit call in progress can still take: POST, sleep, POST
StepsLeft ==
    IF pc = "sleep" THEN 2
    ELSE IF pc = "post" THEN (IF sub.responses = << >> THEN 3 ELSE 1)
    ELSE 0

\* C29: bounded submission -- whatever the responses, a submit call makes
\* at most 2 network calls and sleeps at most once, the sleep comes after
\* the first call and before the second, the call is over after the
\* second response, and every step of a call in progress brings its end
\* nearer, so that the call ends within three steps.
C29_BoundedSubmission ==
    /\ [](/\ Len(sub.responses) <= 2
          /\ Len(sub.sleeps) <= 1
          /\ pc = "sleep" => (Len(sub.responses) = 1 /\ sub.sleeps = << >>)
          /\ Len(sub.responses) = 2 => (sub.done /\ Len(sub.sleeps) = 1)
          /\ Submitting <=> pc \in {"post", "sleep"})
    /\ [][Len(sub'.sleeps) > Len(sub.sleeps) =>
             (Len(sub.responses) = 1 /\ sub.sleeps = << >> /\ pc' = "post")]_vars
    /\ [][Submitting => StepsLeft' < StepsLeft]_vars

\* a call has ended pending after two network calls and one sleep
C29_Witness ==
    /\ sub.done
    /\ Len(sub.responses) = 2
    /\ Len(sub.sleeps) = 1
    /\ sub.result = PyStr("pending")
    /\ sub.exc = NoExc

\* C30: every response with a success status ends the round in one of the
\* outcomes correct, wrong, pending or failed without an error -- and a
\* too-recently response to the first attempt, with or without the wait
\* phrase, is followed by the sleep and the second attempt.
C30_SuccessOutcome ==
    (sub.responses # << >> /\ LastResponse.ok) =>
        /\ sub.exc = NoExc
        /\ sub.result \in {PyStr("correct"), PyStr("wrong"),
                            PyStr("pending"), PyStr("failed")}
        /\ (Len(sub.responses) = 1 /\ startswith(LastResponse, TooRecently)) =>
               (pc = "sleep" \/ (pc = "post" /\ Len(sub.sleeps) = 1))

\* ------------------------------------------------------------------------
\* Claims about the cache (checked under SpecCache)
\* ------------------------------------------------------------------------
IsOpen(o) == heap[o]._data # PyNone

\* the step is a call of one of ops on instance o
Calls(o, ops) == ncalls' = ncalls + 1 /\ ev'.obj = o /\ ev'.op \in ops

\* C4: for every non-empty key path and value, set(path, v) on an open store
\* followed immediately by get(path) returns v -- after every set made on
\* an open store, the set went through and a get of the same path gives v.
C4_SetThenGet ==
    (ev.op = "set" /\ ev.exc # ClosedIOError) =>
        /\ ev.exc = NoExc
        /\ get(heap, fs, ev.obj, ev.keys, PyNone).ret = ev.value

\* C5: round-trip persistence -- a store opened after a commit, with the
\* file written by nobody else, holds a document equal to the one committed.
C5_RoundTrip ==
    (ev.op \in {"open", "enter"} /\ ev.exc = NoExc
        /\ committed[heap[ev.obj].cache_path] # PyNone) =>
        py_eq(heap[ev.obj]._data, committed[heap[ev.obj].cache_path])

\* C6: protocol misuse fails without effect -- get, set, commit and close on
\* a store that is not open raise the closed-store error, open on an open
\* store raises the already-open error, and neither changes the instances
\* (document, dirty flag, recorded hash) or the backing files.
C6_MisuseFails ==
    [][\A o \in Objs :
        /\ (Calls(o, {"get", "set", "commit", "close", "close_commit"}) /\ ~IsOpen(o))
              => (ev'.exc \in ClosedStoreErrors /\ heap' = heap /\ fs' = fs)
        /\ (Calls(o, {"open", "enter"}) /\ IsOpen(o))
              => (ev'.exc = AlreadyOpenError /\ heap' = heap /\ fs' = fs)]_vars

C6_Witness ==
    /\ ev.op = "commit"
    /\ ev.exc = ClosedCommitError
    /\ heap[ev.obj]._uncommitted_changes

\* C7: singleton by path -- all requests for one directory return the same
\* instance, requests for different directories return different ones, and
\* a further request neither constructs nor resets anything, so it reads
\* back the value just set through the first reference.
C7_Singleton ==
    /\ \A d \in Dirs : Cardinality(issued[d]) <= 1
    /\ \A d1 \in Dirs, d2 \in Dirs : d1 # d2 => issued[d1] \cap issued[d2] = {}
    /\ (ev.op = "set" /\ ev.exc = NoExc) =>
          LET q == AnswerCache(_instances, heap, fs, heap[ev.obj].cache_path)
          IN  /\ q.ret = ev.obj
              /\ q.heap = heap
              /\ get(q.heap, q.fs, q.ret, ev.keys, PyNone).ret = ev.value

C7_Witness ==
    /\ ev.op = "request"
    /\ ~ev.wrote
    /\ IsOpen(ev.obj)
    /\ heap[ev.obj]._uncommitted_changes
    /\ \A d \in Dirs : issued[d] # {}

C9_ReleasedOnError ==
    ev.op = "exit_error" =>
        /\ ~IsOpen(ev.obj)
        /\ open(heap, fs, ev.obj).exc = NoExc
        /\ heap[ev.obj]._uncommitted_changes => DiscardedWarning \in ev.warned

\* C10: commit on an open store writes the whole document if and only if
\* the dirty flag is set; otherwise it reads nothing, writes nothing and
\* warns of nothing; after a commit that writes, the flag is clear.
C10_CommitIffDirty ==
    [][\A o \in Objs : (Calls(o, {"commit"}) /\ IsOpen(o)) =>
        /\ ev'.exc = NoExc
        /\ ev'.wrote <=> heap[o]._uncommitted_changes
        /\ heap[o]._uncommitted_changes =>
              /\ fs'[heap[o].cache_path] = Bytes(json_dump(heap[o]._data), FALSE)
              /\ ~heap'[o]._uncommitted_changes
        /\ ~heap[o]._uncommitted_changes =>
              /\ ~ev'.read
              /\ ev'.warned = {}
              /\ fs' = fs
              /\ heap' = heap]_vars

C10_Witness ==
    /\ ev.op = "commit"
    /\ ev.wrote
    /\ ~heap[ev.obj]._uncommitted_changes

\* C12: close on an open store emits the discarded-changes warning if and
\* only if the store is dirty and commit=False; close(commit=False) never
\* writes the backing file; after a close that did not raise the store is
\* closed.
C12_CloseWarns ==
    [][\A o \in Objs :
        (Calls(o, {"close", "close_commit"}) /\ IsOpen(o)) =>
            /\ (DiscardedWarning \in ev'.warned)
                   <=> (heap[o]._uncommitted_changes /\ ev'.op = "close")
            /\ ev'.op = "close" => (fs' = fs /\ ~ev'.wrote)
            /\ ev'.exc = NoExc => heap'[o]._data = PyNone
      ]_vars

\* a close(commit=False) has discarded the changes of a set, with the
\* warning, and left the store closed
C12_Witness ==
    /\ ev.op = "close"
    /\ ev.exc = NoExc
    /\ DiscardedWarning \in ev.warned
    /\ heap[ev.obj]._data = PyNone
    /\ heap[ev.obj]._uncommitted_changes
    /\ committed[heap[ev.obj].cache_path] = PyNone

\* C25: no spurious stale-write warning -- on a store whose backing file
\* is written by no one else, no call emits the stale-write warning, also
\* when a session makes several set and commit rounds.
C25_NoSpuriousWarning ==
    StaleWarning \notin ev.warned

\* the step is a call on instance o right after its open, with no set in
\* between
AfterOpen(o) ==
    /\ ev.op \in {"open", "enter"}
    /\ ev.obj = o
    /\ ev.exc = NoExc
    /\ Calls(o, {"commit", "close", "close_commit"})

\* C26: the dirty flag does not outlive an open/close cycle -- a closed
\* store has no pending changes, and a commit or close that follows an
\* open with no set in between writes no file and emits no
\* discarded-changes warning.
C26_DirtyCleared ==
    /\ [](\A o \in Objs : ~IsOpen(o) => ~heap[o]._uncommitted_changes)
    /\ [][\A o \in Objs :
            AfterOpen(o) => (fs' = fs /\ ~ev'.wrote /\ DiscardedWarning \notin ev'.warned)
         ]_vars

\* the file holds a complete JSON object
ValidFile(file) == file.exists /\ type(file.text) = "object"

\* C24: file validity -- once a store is constructed for a directory, its
\* backing file exists and holds a complete JSON object after every store
\* operation, also after a commit that raised part-way.
C24_FileValid ==
    \A o \in Objs : ValidFile(fs[heap[o].cache_path])

\* ------------------------------------------------------------------------
\* Claims about the shared backing file (checked under SpecShared)
\* ------------------------------------------------------------------------
\* the step is instance o writing its changes: commit, close(commit=True) or
\* the normal end of a with block, made on an open store with uncommitted
\* changes
DirtyCommit(o) ==
    /\ Calls(o, {"commit", "close_commit", "exit"})
    /\ IsOpen(o)
    /\ heap[o]._uncommitted_changes

\* C11: stale-write detection -- a dirty commit emits the stale-write
\* warning if and only if the bytes of the backing file at commit time
\* differ from the bytes read at open time; either way the commit does not
\* raise and the file afterwards holds the in-memory document.
C11_StaleWrite ==
    [][\A o \in Objs :
        DirtyCommit(o) =>
            /\ (StaleWarning \in ev'.warned) <=> (fs[heap[o].cache_path] # opened[o])
            /\ ev'.exc = NoExc
            /\ fs'[heap[o].cache_path] = Bytes(json_dump(heap[o]._data), FALSE)
      ]_vars

\* a dirty commit has overwritten what the other process wrote after the
\* open, with the warning
C11_Witness ==
    /\ ev.op \in {"commit", "close_commit", "exit"}
    /\ ev.wrote
    /\ StaleWarning \in ev.warned
    /\ committed[Day] # PyNone
    /\ fs[Day] = Bytes(json_dump(committed[Day]), FALSE)
    /\ opened[ev.obj] = Bytes(JObject(<< >>), TRUE)

====
